---- MODULE Spec2Model ----
(***************************************************************************)
(* MathLogicEvaluator (src/main.cpp): tokenizer, validator, shunting-yard  *)
(* converter and postfix evaluator, with the evaluator object's operator   *)
(* table as the only state that outlives a call to evaluate.               *)
(*                                                                         *)
(* A character is a one-character string, a std::string is a sequence of   *)
(* characters, a token is a std::string.                                   *)
(***************************************************************************)
EXTENDS Integers, Sequences, FiniteSets, TLC

\* ------------------------------------------------------------------ int

INT_MAX == 2147483647

INT_MIN == -INT_MAX - 1

\* The builds the undefined operations are resolved by. Signed overflow
\* wraps on both. On "x86_64" an integer division that has no result ends
\* the process (SIGFPE) and a double outside int converts to INT_MIN; on
\* "aarch64" the division leaves a value (quotient 0 for a zero divisor) and
\* the conversion saturates.
Builds == {"x86_64", "aarch64"}

\* ------------------------------------------------------------- outcomes

\* What one call of evaluate gives its caller. kind is "int" (returned val),
\* "ExpressionError" (threw msg, with the number to_string appended to it in
\* at, -1 for none, and the operator appended to it in op), "out_of_range"
\* (std::stoi threw std::out_of_range) or "crash" (the process ended in an
\* undefined operation). ub records that an undefined operation was executed.
Returned(v, ub) ==
    [kind |-> "int", val |-> v, msg |-> "", at |-> -1, op |-> <<>>, ub |-> ub]

ExpressionError(msg, at, op, ub) ==
    [kind |-> "ExpressionError", val |-> 0, msg |-> msg, at |-> at, op |-> op, ub |-> ub]

OutOfRange(ub) ==
    [kind |-> "out_of_range", val |-> 0, msg |-> "stoi", at |-> -1, op |-> <<>>, ub |-> ub]

Crash ==
    [kind |-> "crash", val |-> 0, msg |-> "", at |-> -1, op |-> <<>>, ub |-> TRUE]

NoOutcome ==
    [kind |-> "none", val |-> 0, msg |-> "", at |-> -1, op |-> <<>>, ub |-> FALSE]

\* ------------------------------------------------------- operator table

LPAREN == <<"(">>

RPAREN == <<")">>

NEG == <<"n", "e", "g">>

InitialOperatorPrecedence ==
    (<<"|", "|">> :> 1) @@ (<<"&", "&">> :> 2) @@
    (<<"=", "=">> :> 3) @@ (<<"!", "=">> :> 3) @@
    (<<">">> :> 4) @@ (<<">", "=">> :> 4) @@ (<<"<">> :> 4) @@ (<<"<", "=">> :> 4) @@
    (<<"+">> :> 5) @@ (<<"-">> :> 5) @@
    (<<"*">> :> 6) @@ (<<"/">> :> 6) @@ (<<"%">> :> 6) @@
    (<<"^">> :> 7) @@
    (<<"!">> :> 8) @@ (<<"+", "+">> :> 8) @@ (<<"-", "-">> :> 8) @@ (NEG :> 8)

isRightAssociative(op) ==
    op \in {<<"^">>, <<"!">>, <<"+", "+">>, <<"-", "-">>, NEG}

isUnaryOperator(op) ==
    op \in {<<"!">>, <<"+", "+">>, <<"-", "-">>, NEG}

\* operatorPrecedence.count(key) on the table `table`
count(table, key) == key \in DOMAIN table

\* operatorPrecedence[key]: std::unordered_map::operator[] inserts a
\* value-initialised entry (0) for a key that is absent.
Subscript(table, key) ==
    IF key \in DOMAIN table THEN table ELSE table @@ (key :> 0)

\* ------------------------------------------------------------ <cctype>

isdigit(c) == c \in {"0", "1", "2", "3", "4", "5", "6", "7", "8", "9"}

isspace(c) == c = " "

DigitValue(c) ==
    CASE c = "0" -> 0 [] c = "1" -> 1 [] c = "2" -> 2 [] c = "3" -> 3 [] c = "4" -> 4
      [] c = "5" -> 5 [] c = "6" -> 6 [] c = "7" -> 7 [] c = "8" -> 8 [] c = "9" -> 9

\* ------------------------------------------------------------ tokenizer

RECURSIVE DigitRunEnd(_, _)
\* the index of the last character of the run of digits that starts at i
DigitRunEnd(expr, i) ==
    IF i + 1 <= Len(expr) /\ isdigit(expr[i + 1]) THEN DigitRunEnd(expr, i + 1) ELSE i

\* IsUnaryMinusContext without the case of the left parenthesis
IsUnaryMinusContextNoParen(tokens, table) ==
    \/ tokens = <<>>
    \/ count(table, tokens[Len(tokens)])

\* the condition under which a '-' is pushed as "neg"
IsUnaryMinusContext(tokens, table) ==
    \/ tokens = <<>>
    \/ tokens[Len(tokens)] = LPAREN
    \/ count(table, tokens[Len(tokens)])

\* IsTwoCharOperator with a '-' never opening a two-character operator
IsTwoCharOperatorNotMinus(expr, i, table) ==
    /\ i + 1 <= Len(expr)
    /\ expr[i] # "-"
    /\ count(table, <<expr[i], expr[i + 1]>>)

\* whether the character at i and its successor form a key of the table
IsTwoCharOperator(expr, i, table) ==
    /\ i + 1 <= Len(expr)
    /\ count(table, <<expr[i], expr[i + 1]>>)

RECURSIVE TokenizeFrom(_, _, _, _)
\* the loop of tokenizeExpression from index i (1-based) with `tokens` pushed
TokenizeFrom(expr, i, tokens, table) ==
    IF i > Len(expr) THEN tokens
    ELSE IF isspace(expr[i]) THEN TokenizeFrom(expr, i + 1, tokens, table)
    ELSE IF isdigit(expr[i]) THEN
        LET j == DigitRunEnd(expr, i)
        IN  TokenizeFrom(expr, j + 1, Append(tokens, SubSeq(expr, i, j)), table)
    ELSE IF IsTwoCharOperator(expr, i, table) THEN
        TokenizeFrom(expr, i + 2, Append(tokens, <<expr[i], expr[i + 1]>>), table)
    ELSE IF expr[i] = "-" /\ IsUnaryMinusContext(tokens, table) THEN
        TokenizeFrom(expr, i + 1, Append(tokens, NEG), table)
    ELSE
        TokenizeFrom(expr, i + 1, Append(tokens, <<expr[i]>>), table)

tokenizeExpression(expr, table) == TokenizeFrom(expr, 1, <<>>, table)

\* ------------------------------------------------------------ validator

MsgStartParen == "Expression can't start with a closing parenthesis @ char: "

MsgStartBinary == "Expression can't start with a binary operator @ char: "

MsgTwoBinary == "Two binary operators in a row @ char: "

MsgTwoOperands == "Two operands in a row @ char: "

MsgUnaryBinary == "A unary operand can't be followed by a binary operator @ char: "

\* operatorPrecedence.count(t) && !isUnaryOperator(t)
IsBinaryKey(table, t) == count(table, t) /\ ~isUnaryOperator(t)

\* The five checks of the loop body for the token at index i (0-based, as in
\* the source): the first that fires, as the error thrown, or NoOutcome.
ValidateAt(tokens, i, table) ==
    LET token == tokens[i + 1]
        prev  == IF i > 0 THEN tokens[i] ELSE <<>>
        next  == IF i + 1 < Len(tokens) THEN tokens[i + 2] ELSE <<>>
    IN  IF token = RPAREN /\ i = 0
            THEN ExpressionError(MsgStartParen, 0, <<>>, FALSE)
        ELSE IF IsBinaryKey(table, token) /\ i = 0
            THEN ExpressionError(MsgStartBinary, 0, <<>>, FALSE)
        ELSE IF IsBinaryKey(table, token) /\ IsBinaryKey(table, prev)
            THEN ExpressionError(MsgTwoBinary, i, <<>>, FALSE)
        ELSE IF isdigit(token[1]) /\ prev # <<>> /\ isdigit(prev[1])
            THEN ExpressionError(MsgTwoOperands, i, <<>>, FALSE)
        ELSE IF isUnaryOperator(token) /\ next # <<>> /\ IsBinaryKey(table, next)
            THEN ExpressionError(MsgUnaryBinary, i + 1, <<>>, FALSE)
        ELSE NoOutcome

RECURSIVE ValidateFrom(_, _, _)
ValidateFrom(tokens, i, table) ==
    IF i >= Len(tokens) THEN NoOutcome
    ELSE LET r == ValidateAt(tokens, i, table)
         IN  IF r # NoOutcome THEN r ELSE ValidateFrom(tokens, i + 1, table)

\* NoOutcome when the function returns, the ExpressionError it throws otherwise
validateTokenSequence(tokens, table) == ValidateFrom(tokens, 0, table)

\* ------------------------------------------------------------ converter

\* ShouldPop with <= for the right-associative operators too
ShouldPopLeftOnly(token, top, table) == table[token] <= table[top]

\* the last conjunct of the while condition of the operator branch, read on
\* the table as the two lookups of the condition have left it
ShouldPop(token, top, table) ==
    \/ isRightAssociative(token) /\ table[token] < table[top]
    \/ ~isRightAssociative(token) /\ table[token] <= table[top]

RECURSIVE PopOperators(_, _, _, _)
\* the while loop of the operator branch: the condition's operatorPrecedence[]
\* lookups run only when the stack is not empty and its top is not "(", and
\* they insert token and top when absent
PopOperators(token, output, operators, table) ==
    IF operators # <<>> /\ operators[Len(operators)] # LPAREN
    THEN LET top     == operators[Len(operators)]
             looked  == Subscript(Subscript(table, token), top)
         IN  IF ShouldPop(token, top, looked)
             THEN PopOperators(token, Append(output, top),
                               SubSeq(operators, 1, Len(operators) - 1), looked)
             ELSE [output |-> output, operators |-> operators, table |-> looked]
    ELSE [output |-> output, operators |-> operators, table |-> table]

RECURSIVE PopToLeftParen(_, _)
\* the ")" branch: pop to the output down to a "(", which is dropped if there
PopToLeftParen(output, operators) ==
    IF operators # <<>> /\ operators[Len(operators)] # LPAREN
    THEN PopToLeftParen(Append(output, operators[Len(operators)]),
                        SubSeq(operators, 1, Len(operators) - 1))
    ELSE [output |-> output,
          operators |-> IF operators # <<>>
                        THEN SubSeq(operators, 1, Len(operators) - 1)
                        ELSE operators]

RECURSIVE PopRemaining(_, _)
PopRemaining(output, operators) ==
    IF operators = <<>> THEN output
    ELSE PopRemaining(Append(output, operators[Len(operators)]),
                      SubSeq(operators, 1, Len(operators) - 1))

RECURSIVE ConvertFrom(_, _, _, _, _)
\* the for loop of convertToPostfix from the k-th token, then the final pops
ConvertFrom(tokens, k, output, operators, table) ==
    IF k > Len(tokens)
    THEN [output |-> PopRemaining(output, operators), table |-> table]
    ELSE LET token == tokens[k]
         IN  IF isdigit(token[1])
             THEN ConvertFrom(tokens, k + 1, Append(output, token), operators, table)
             ELSE IF token = LPAREN
             THEN ConvertFrom(tokens, k + 1, output, Append(operators, token), table)
             ELSE IF token = RPAREN
             THEN LET r == PopToLeftParen(output, operators)
                  IN  ConvertFrom(tokens, k + 1, r.output, r.operators, table)
             ELSE LET r == PopOperators(token, output, operators, table)
                  IN  ConvertFrom(tokens, k + 1, r.output,
                                  Append(r.operators, token), r.table)

\* [output: the postfix sequence, table: operatorPrecedence as the call leaves it]
convertToPostfix(tokens, table) == ConvertFrom(tokens, 1, <<>>, <<>>, table)

\* ------------------------------------------------------- int arithmetic

Abs(x) == IF x < 0 THEN -x ELSE x

\* Signed overflow: the run carries on with the wrapped value v.
Overflowed(v) == Returned(v, TRUE)

\* An integer division without a result: the process ends, or carries on
\* with the value v the divide instruction leaves.
DivisionUndefined(build, v) == IF build = "x86_64" THEN Crash ELSE Returned(v, TRUE)

\* The conversion to int of a double outside int, negative or not.
ConversionUndefined(build, negative) ==
    IF build = "x86_64" \/ negative THEN Returned(INT_MIN, TRUE)
    ELSE Returned(INT_MAX, TRUE)

AddOverflows(l, r) ==
    \/ r > 0 /\ l > INT_MAX - r
    \/ r < 0 /\ l < INT_MIN - r

\* l + r modulo 2^32
AddWrap(l, r) ==
    IF r > 0 /\ l > INT_MAX - r THEN (l - INT_MAX - 1) + (r - INT_MAX - 1)
    ELSE IF r < 0 /\ l < INT_MIN - r THEN (l + INT_MAX + 1) + (r + INT_MAX + 1)
    ELSE l + r

SubOverflows(l, r) ==
    \/ r < 0 /\ l > INT_MAX + r
    \/ r > 0 /\ l < INT_MIN + r

\* l - r modulo 2^32
SubWrap(l, r) ==
    IF r < 0 /\ l > INT_MAX + r THEN (l - INT_MAX - 1) - (r + INT_MAX + 1)
    ELSE IF r > 0 /\ l < INT_MIN + r THEN (l + INT_MAX + 1) - (r - INT_MAX - 1)
    ELSE l - r

MulOverflows(l, r) ==
    IF l = 0 \/ r = 0 THEN FALSE
    ELSE IF l = INT_MIN THEN r # 1
    ELSE IF r = INT_MIN THEN l # 1
    ELSE IF (l > 0) = (r > 0) THEN Abs(l) > INT_MAX \div Abs(r)
    ELSE IF Abs(r) = 1 THEN FALSE
    ELSE Abs(l) > (INT_MAX \div Abs(r))
                  + (IF INT_MAX % Abs(r) = Abs(r) - 1 THEN 1 ELSE 0)

RECURSIVE MulWrapNat(_, _)
\* l * n modulo 2^32 for n >= 0, by doubling
MulWrapNat(l, n) ==
    IF n = 0 THEN 0
    ELSE LET h == MulWrapNat(l, n \div 2)
             d == AddWrap(h, h)
         IN  IF n % 2 = 0 THEN d ELSE AddWrap(d, l)

\* l * r modulo 2^32
MulWrap(l, r) ==
    IF r >= 0 THEN MulWrapNat(l, r)
    ELSE IF r = INT_MIN THEN (IF l % 2 = 0 THEN 0 ELSE INT_MIN)
    ELSE SubWrap(0, MulWrapNat(l, -r))

\* TruncDiv rounding toward minus infinity
TruncDivFloors(l, r) == l \div r

\* C++ integer division, rounding toward zero (r # 0, not INT_MIN / -1)
TruncDiv(l, r) ==
    IF r = INT_MIN THEN (IF l = INT_MIN THEN 1 ELSE 0)
    ELSE LET q == l \div r
         IN  IF l % Abs(r) # 0 /\ ((l < 0) # (r < 0)) THEN q + 1 ELSE q

\* C++ remainder: l - (l / r) * r
TruncMod(l, r) == l - TruncDiv(l, r) * r

RECURSIVE PowFrom(_, _, _)
\* acc * l^n for |l| >= 2 and n >= 0: [ok, val], ok false once outside int
PowFrom(l, n, acc) ==
    IF n = 0 THEN [ok |-> TRUE, val |-> acc]
    ELSE IF MulOverflows(acc, l) THEN [ok |-> FALSE, val |-> 0]
    ELSE PowFrom(l, n - 1, acc * l)

\* int(std::pow(double(l), double(r))): the power is exact in a double when
\* it fits an int, a power of magnitude below 1 truncates to 0, and the
\* conversion of a value outside int (an overflowing power, the infinity of
\* 0 to a negative power) is undefined.
PowToInt(l, r, build) ==
    IF r = 0 \/ l = 1 THEN Returned(1, FALSE)
    ELSE IF l = 0 THEN
        (IF r > 0 THEN Returned(0, FALSE) ELSE ConversionUndefined(build, FALSE))
    ELSE IF l = -1 THEN Returned(IF r % 2 = 0 THEN 1 ELSE -1, FALSE)
    ELSE IF r < 0 THEN Returned(0, FALSE)
    ELSE LET p == PowFrom(l, r, 1)
         IN  IF p.ok THEN Returned(p.val, FALSE)
             ELSE ConversionUndefined(build, l < 0 /\ r % 2 = 1)

BoolToInt(b) == IF b THEN 1 ELSE 0

\* ------------------------------------------------------------ evaluator

MsgDivisionByZero == "Division by zero"

MsgUnknownBinary == "Unknown binary operator: "

MsgUnknownUnary == "Unknown unary operator: "

MsgMissingUnary == "Missing operand for unary operator"

MsgMissingBinary == "Missing operands for binary operator"

MsgLeftover == "Expression evaluation error: leftover operands"

\* Divide without the check of right against 0
DivideUnchecked(left, right, build) ==
    IF right = 0 \/ (left = INT_MIN /\ right = -1) THEN DivisionUndefined(build, 0)
    ELSE Returned(TruncDiv(left, right), FALSE)

\* left / right with right checked against 0
Divide(left, right, build) ==
    IF right = 0 THEN ExpressionError(MsgDivisionByZero, -1, <<>>, FALSE)
    ELSE IF left = INT_MIN /\ right = -1 THEN DivisionUndefined(build, INT_MIN)
    ELSE Returned(TruncDiv(left, right), FALSE)

\* UnknownBinaryOperator returning a default instead of throwing
UnknownBinaryOperatorReturns(op) == Returned(0, FALSE)

\* the throw that ends calculateBinaryOperation
UnknownBinaryOperator(op) == ExpressionError(MsgUnknownBinary, -1, op, FALSE)

\* the value returned, the ExpressionError thrown, or the crash
calculateBinaryOperation(op, left, right, build) ==
    IF op = <<"+">> THEN
        (IF AddOverflows(left, right) THEN Overflowed(AddWrap(left, right))
         ELSE Returned(left + right, FALSE))
    ELSE IF op = <<"-">> THEN
        (IF SubOverflows(left, right) THEN Overflowed(SubWrap(left, right))
         ELSE Returned(left - right, FALSE))
    ELSE IF op = <<"*">> THEN
        (IF MulOverflows(left, right) THEN Overflowed(MulWrap(left, right))
         ELSE Returned(left * right, FALSE))
    ELSE IF op = <<"/">> THEN Divide(left, right, build)
    ELSE IF op = <<"%">> THEN
        (IF right = 0 THEN DivisionUndefined(build, left)
         ELSE IF left = INT_MIN /\ right = -1 THEN DivisionUndefined(build, 0)
         ELSE Returned(TruncMod(left, right), FALSE))
    ELSE IF op = <<"^">> THEN PowToInt(left, right, build)
    ELSE IF op = <<"=", "=">> THEN Returned(BoolToInt(left = right), FALSE)
    ELSE IF op = <<"!", "=">> THEN Returned(BoolToInt(left # right), FALSE)
    ELSE IF op = <<">">> THEN Returned(BoolToInt(left > right), FALSE)
    ELSE IF op = <<"<">> THEN Returned(BoolToInt(left < right), FALSE)
    ELSE IF op = <<">", "=">> THEN Returned(BoolToInt(left >= right), FALSE)
    ELSE IF op = <<"<", "=">> THEN Returned(BoolToInt(left <= right), FALSE)
    ELSE IF op = <<"&", "&">> THEN Returned(BoolToInt(left # 0 /\ right # 0), FALSE)
    ELSE IF op = <<"|", "|">> THEN Returned(BoolToInt(left # 0 \/ right # 0), FALSE)
    ELSE UnknownBinaryOperator(op)

calculateUnaryOperation(op, operand) ==
    IF op = <<"!">> THEN Returned(BoolToInt(operand = 0), FALSE)
    ELSE IF op = <<"+", "+">> THEN
        (IF operand = INT_MAX THEN Overflowed(INT_MIN)
         ELSE Returned(operand + 1, FALSE))
    ELSE IF op = <<"-", "-">> THEN
        (IF operand = INT_MIN THEN Overflowed(INT_MAX)
         ELSE Returned(operand - 1, FALSE))
    ELSE IF op = NEG THEN
        (IF operand = INT_MIN THEN Overflowed(INT_MIN)
         ELSE Returned(-operand, FALSE))
    ELSE ExpressionError(MsgUnknownUnary, -1, op, FALSE)

RECURSIVE StoiFrom(_, _, _)
\* std::stoi on a token of digits: [ok, val], ok false when out of int
StoiFrom(token, k, acc) ==
    IF k > Len(token) THEN [ok |-> TRUE, val |-> acc]
    ELSE IF acc > (INT_MAX - DigitValue(token[k])) \div 10 THEN [ok |-> FALSE, val |-> 0]
    ELSE StoiFrom(token, k + 1, acc * 10 + DigitValue(token[k]))

stoi(token) == StoiFrom(token, 1, 0)

RECURSIVE EvaluateFrom(_, _, _, _, _)
\* the for loop of evaluatePostfixExpression from the k-th token, then the
\* leftover check; values has its top last; ub: an undefined operation ran
EvaluateFrom(postfix, k, values, build, ub) ==
    IF k > Len(postfix) THEN
        (IF Len(values) # 1 THEN ExpressionError(MsgLeftover, -1, <<>>, ub)
         ELSE Returned(values[Len(values)], ub))
    ELSE LET token == postfix[k]
             n     == Len(values)
         IN  IF isdigit(token[1]) THEN
                 (IF stoi(token).ok
                  THEN EvaluateFrom(postfix, k + 1, Append(values, stoi(token).val), build, ub)
                  ELSE OutOfRange(ub))
             ELSE IF isUnaryOperator(token) THEN
                 (IF n = 0 THEN ExpressionError(MsgMissingUnary, -1, <<>>, ub)
                  ELSE LET r == calculateUnaryOperation(token, values[n])
                       IN  IF r.kind = "int"
                           THEN EvaluateFrom(postfix, k + 1,
                                    Append(SubSeq(values, 1, n - 1), r.val), build,
                                    ub \/ r.ub)
                           ELSE [r EXCEPT !.ub = ub \/ r.ub])
             ELSE
                 (IF n < 2 THEN ExpressionError(MsgMissingBinary, -1, <<>>, ub)
                  ELSE LET r == calculateBinaryOperation(token, values[n - 1], values[n], build)
                       IN  IF r.kind = "int"
                           THEN EvaluateFrom(postfix, k + 1,
                                    Append(SubSeq(values, 1, n - 2), r.val), build,
                                    ub \/ r.ub)
                           ELSE [r EXCEPT !.ub = ub \/ r.ub])

evaluatePostfixExpression(postfix, build) == EvaluateFrom(postfix, 1, <<>>, build, FALSE)

\* --------------------------------------------------------------- inputs

\* The expression strings the specification and its tests name, and strings
\* that reach the corners of int.
Literals ==
    { <<"1", " ", "+", " ", "2", " ", "*", " ", "3">>,
      <<"1", " ", "+", " ", "2", " ", ")">>,
      <<"3", " ", "!">>,
      <<"1", " ", "(", " ", "2", " ", ")", " ", "+">>,
      <<"1", " ", "+", " ", "&", " ", "3">>,
      <<"-", "3", " ", "+", " ", "5">>,
      <<"3", " ", "-", " ", "-", "5">>,
      <<"(", "-", "3", ")", " ", "*", " ", "2">>,
      <<"2", " ", "^", " ", "3", " ", "^", " ", "2">>,
      <<"0", " ", "&", "&", " ", "4", " ", "/", " ", "0">>,
      <<"1", " ", "|", "|", " ", "4", " ", "/", " ", "0">>,
      <<"-", "-", "3">>,
      <<"-", " ", "-", "3">>,
      <<"4", " ", "/", " ", "0", " ", "5">>,
      <<"4", " ", "/", " ", "0">>,
      <<"4", " ", "%", " ", "0">>,
      <<"*", " ", "3", " ", "+", " ", "2">>,
      <<")", " ", "3">>,
      <<"3", " ", "4">>,
      <<"3", " ", "+", " ", "+", " ", "4">>,
      <<"1", " ", "&", "&", " ", "0">>,
      <<"1", " ", "|", "|", " ", "0">>,
      <<"!", "0">>,
      <<"4", " ", "/", " ", "0", " ", "&", " ", "1">>,
      <<"4", " ", "%", " ", "0", " ", "&", " ", "1">>,
      <<"1", " ", "&", " ", "+", " ", "+", " ", "3">>,
      <<"&", " ", "-", " ", "3">>,
      <<"1", " ", "+", " ", "=", " ", "3">>,
      <<"(", "1", " ", "-", " ", "3", ")", " ", "/", " ", "2">>,
      <<"7", " ", "/", " ", "(", "0", " ", "-", " ", "2", ")">>,
      <<"8", " ", "/", " ", "2", " ", "/", " ", "2">>,
      <<"8", " ", "-", " ", "3", " ", "-", " ", "2">>,
      <<"2", " ", "*", " ", "(", "3", " ", "+", " ", "4", ")">>,
      <<"1", "2", " ", "+", " ", "3", "0">>,
      <<"2", " ", "^", " ", "-", "1">>,
      <<"0", " ", "^", " ", "-", "1">>,
      <<"6", "5", "5", "3", "6", " ", "*", " ", "6", "5", "5", "3", "6">>,
      <<"2", "1", "4", "7", "4", "8", "3", "6", "4", "7", " ", "+", " ", "1">>,
      <<"2", "1", "4", "7", "4", "8", "3", "6", "4", "8">>,
      <<"&", " ", "2", "1", "4", "7", "4", "8", "3", "6", "4", "8">>,
      <<"1", " ", "&", "&", "&", " ", "2">>,
      <<"3", " ", "^", " ", "3", " ", "^", " ", "3">> }

\* Expressions that leave an unrecognised symbol in front of an operator of
\* the stack.
Interleaved == { <<"1", " ", "+", " ", "&", " ", "3">> }

MaxLen == 3

Alphabet == {"0", "3", "-", "/", "&", "(", ")", " "}

\* every string over Alphabet of at most MaxLen characters
ShortStrings == UNION { [1..n -> Alphabet] : n \in 0..MaxLen }

MaxOperands == 3

Digits == {"1", "2"}

ArithmeticOperators == {<<"+">>, <<"-">>, <<"*">>, <<"/">>}

\* the tokens the evaluator treats as binary operators
BinaryOperators == { op \in DOMAIN InitialOperatorPrecedence : ~isUnaryOperator(op) }

RECURSIVE RenderChain(_, _, _, _, _)
\* operands ds[m..] joined by the operators os, with "(" before operand i and
\* ")" after operand j
RenderChain(ds, os, i, j, m) ==
    IF m > Len(ds) THEN <<>>
    ELSE (IF m = i THEN <<"(">> ELSE <<>>) \o <<ds[m]>> \o (IF m = j THEN <<")">> ELSE <<>>)
         \o (IF m < Len(ds) THEN os[m] ELSE <<>>)
         \o RenderChain(ds, os, i, j, m + 1)

\* chains of n operands from D under operators from O, bare or with one run
\* of operands in parentheses
Chains(n, D, O) ==
    { RenderChain(ds, os, r[1], r[2], 1) :
        ds \in [1..n -> D], os \in [1..(n - 1) -> O],
        r \in {<<0, 0>>} \cup { <<i, j>> \in (1..n) \X (1..n) : i < j } }

\* well-formed expressions over + - * / and parentheses
ArithmeticStrings == UNION { Chains(n, Digits, ArithmeticOperators) : n \in 1..MaxOperands }

\* a op1 b op2 c for every two binary operators
OperatorChains ==
    { RenderChain(ds, os, 0, 0, 1) :
        ds \in [1..3 -> {"0", "2", "3"}], os \in [1..2 -> BinaryOperators] }

\* ------------------------------------------------------------- the state

VARIABLES
    operatorPrecedence,  \* the evaluator's member: the operator table
    build,               \* how this build resolves undefined operations
    inputs,              \* the strings the caller passes to evaluate
    called,              \* whether evaluate has been called
    before,              \* operatorPrecedence as the latest call found it
    expression,          \* the argument of the latest call
    tokens,              \* its token sequence
    postfix,             \* its postfix sequence (<<>> when not converted)
    stages,              \* the stages it ran, in order
    outcome              \* what it gave its caller

vars == <<operatorPrecedence, build, inputs, called, before, expression, tokens,
          postfix, stages, outcome>>

\* A constructed evaluator, and a caller holding the strings of S.
InitWith(S) ==
    /\ operatorPrecedence = InitialOperatorPrecedence
    /\ build \in Builds
    /\ inputs = S
    /\ called = FALSE
    /\ before = InitialOperatorPrecedence
    /\ expression = <<>>
    /\ tokens = <<>>
    /\ postfix = <<>>
    /\ stages = <<>>
    /\ outcome = NoOutcome

\* Run with the validator called after the converter and the evaluator
RunValidatesLast(e, table, b) ==
    LET toks  == tokenizeExpression(e, table)
        conv  == convertToPostfix(toks, table)
        value == evaluatePostfixExpression(conv.output, b)
        check == validateTokenSequence(toks, conv.table)
    IN  [tokens |-> toks, postfix |-> conv.output, table |-> conv.table,
         stages |-> IF value.kind = "int"
                    THEN <<"tokenize", "convert", "evaluate", "validate">>
                    ELSE <<"tokenize", "convert", "evaluate">>,
         outcome |-> IF value.kind = "int" /\ check # NoOutcome THEN check ELSE value]

\* evaluate(e) from the table `table`: the stages in the order of the body,
\* a stage that throws ending the call
Run(e, table, b) ==
    LET toks  == tokenizeExpression(e, table)
        check == validateTokenSequence(toks, table)
        conv  == convertToPostfix(toks, table)
    IN  IF check # NoOutcome
        THEN [tokens |-> toks, postfix |-> <<>>, table |-> table,
              stages |-> <<"tokenize", "validate">>, outcome |-> check]
        ELSE [tokens |-> toks, postfix |-> conv.output, table |-> conv.table,
              stages |-> <<"tokenize", "validate", "convert", "evaluate">>,
              outcome |-> evaluatePostfixExpression(conv.output, b)]

\* One call evaluator.evaluate(e); a crashed process makes no further call.
evaluate(e) ==
    /\ outcome.kind # "crash"
    /\ LET r == Run(e, operatorPrecedence, build)
       IN  /\ operatorPrecedence' = r.table
           /\ tokens' = r.tokens
           /\ postfix' = r.postfix
           /\ stages' = r.stages
           /\ outcome' = r.outcome
    /\ before' = operatorPrecedence
    /\ expression' = e
    /\ called' = TRUE
    /\ UNCHANGED <<build, inputs>>

Next == \E e \in inputs : evaluate(e)

\* The caller passes any of the named strings, in any order.
Init == InitWith(Literals)

Spec == Init /\ [][Next]_vars

\* The caller passes one string of a family or any of the named strings and,
\* in any order with it, the strings of Interleaved.
InitFamily(F) == \E a \in F \cup Literals : InitWith({a} \cup Interleaved)

InitShort == InitFamily(ShortStrings)

SpecShort == InitShort /\ [][Next]_vars

InitArithmetic == InitFamily(ArithmeticStrings)

SpecArithmetic == InitArithmetic /\ [][Next]_vars

InitChains == InitFamily(OperatorChains)

SpecChains == InitChains /\ [][Next]_vars

\* ------------------------------------------------- reference arithmetic

\* A reference evaluator for expressions over non-negative literals, binary
\* + - * / and parentheses, read from the characters by recursive descent:
\* sum := product (("+" | "-") product)*, product := factor (("*" | "/")
\* factor)*, factor := literal | "(" sum ")". A result is [ok, val, pos,
\* zero, big]: parsed, value, next position, some division had a zero right
\* operand, some value left the range of int.
RefFail == [ok |-> FALSE, val |-> 0, pos |-> 0, zero |-> FALSE, big |-> FALSE]

RECURSIVE RefSkip(_, _)
RefSkip(e, p) == IF p <= Len(e) /\ e[p] = " " THEN RefSkip(e, p + 1) ELSE p

RECURSIVE RefDecimal(_)
\* [val, big] of a run of digits
RefDecimal(ds) ==
    IF ds = <<>> THEN [val |-> 0, big |-> FALSE]
    ELSE LET front == RefDecimal(SubSeq(ds, 1, Len(ds) - 1))
             d     == DigitValue(ds[Len(ds)])
         IN  IF front.big \/ front.val > (INT_MAX - d) \div 10
             THEN [val |-> 0, big |-> TRUE]
             ELSE [val |-> 10 * front.val + d, big |-> FALSE]

\* the quotient rounded toward zero
RefQuotient(l, r) ==
    IF (l < 0) = (r < 0) THEN Abs(l) \div Abs(r) ELSE -(Abs(l) \div Abs(r))

RefLeavesInt(op, l, r) ==
    CASE op = "+" -> (l < 0) = (r < 0) /\ Abs(l) > INT_MAX - Abs(r)
      [] op = "-" -> (l < 0) # (r < 0) /\ Abs(l) > INT_MAX - Abs(r)
      [] op = "*" -> l # 0 /\ r # 0 /\ Abs(l) > INT_MAX \div Abs(r)
      [] op = "/" -> FALSE

\* left op right, at the position right ends at
RefApply(op, left, right) ==
    LET zero == left.zero \/ right.zero \/ (op = "/" /\ right.val = 0)
        big  == left.big \/ right.big \/ RefLeavesInt(op, left.val, right.val)
    IN  [ok |-> TRUE, pos |-> right.pos, zero |-> zero, big |-> big,
         val |-> IF zero \/ big THEN 0
                 ELSE CASE op = "+" -> left.val + right.val
                        [] op = "-" -> left.val - right.val
                        [] op = "*" -> left.val * right.val
                        [] op = "/" -> RefQuotient(left.val, right.val)]

RECURSIVE RefSum(_, _)
RECURSIVE RefSumTail(_, _)
RECURSIVE RefProduct(_, _)
RECURSIVE RefProductTail(_, _)
RECURSIVE RefFactor(_, _)

RefFactor(e, p0) ==
    LET p == RefSkip(e, p0)
    IN  IF p > Len(e) THEN RefFail
        ELSE IF isdigit(e[p]) THEN
            LET j == DigitRunEnd(e, p)
                n == RefDecimal(SubSeq(e, p, j))
            IN  [ok |-> TRUE, val |-> n.val, pos |-> j + 1, zero |-> FALSE, big |-> n.big]
        ELSE IF e[p] = "(" THEN
            LET s == RefSum(e, p + 1)
                q == RefSkip(e, s.pos)
            IN  IF s.ok /\ q <= Len(e) /\ e[q] = ")" THEN [s EXCEPT !.pos = q + 1]
                ELSE RefFail
        ELSE RefFail

RefProductTail(e, left) ==
    LET p == RefSkip(e, left.pos)
    IN  IF p <= Len(e) /\ e[p] \in {"*", "/"}
        THEN LET right == RefFactor(e, p + 1)
             IN  IF right.ok THEN RefProductTail(e, RefApply(e[p], left, right))
                 ELSE RefFail
        ELSE left

RefProduct(e, p) ==
    LET f == RefFactor(e, p) IN IF f.ok THEN RefProductTail(e, f) ELSE RefFail

RefSumTail(e, left) ==
    LET p == RefSkip(e, left.pos)
    IN  IF p <= Len(e) /\ e[p] \in {"+", "-"}
        THEN LET right == RefProduct(e, p + 1)
             IN  IF right.ok THEN RefSumTail(e, RefApply(e[p], left, right))
                 ELSE RefFail
        ELSE left

RefSum(e, p) ==
    LET f == RefProduct(e, p) IN IF f.ok THEN RefSumTail(e, f) ELSE RefFail

\* the whole of e as one sum
RefExpression(e) ==
    LET s == RefSum(e, 1)
    IN  IF s.ok /\ RefSkip(e, s.pos) > Len(e) THEN s ELSE RefFail

\* ------------------------------------------------------------------- C1

\* C1: for every well-formed expression over non-negative literals, binary
\* + - * / and balanced parentheses in which no division has a zero right
\* operand (and no value leaves int, which section 1 of the specification
\* leaves open), evaluate returns the integer of the reference evaluator:
\* * and / before + and -, equal precedence left to right, division
\* truncating toward zero; "1 + 2 * 3" returns 7.
C1_MatchesReference ==
    called =>
        /\ LET r == RefExpression(expression)
           IN  (r.ok /\ ~r.zero /\ ~r.big) => outcome = Returned(r.val, FALSE)
        /\ expression = <<"1", " ", "+", " ", "2", " ", "*", " ", "3">>
               => outcome = Returned(7, FALSE)

\* (1-2)/2 is 0 by truncation (-1 by flooring), here on an evaluator whose
\* table an earlier call has grown
C1_Witness ==
    /\ called
    /\ expression = <<"(", "1", "-", "2", ")", "/", "2">>
    /\ RefExpression(expression).ok
    /\ outcome = Returned(0, FALSE)
    /\ before # InitialOperatorPrecedence

\* ------------------------------------------------------------------- C2

\* The well-formed token sequences: operands separated by binary operators,
\* an operand being a number or a parenthesised expression behind any
\* number of unary operators. The Wf operators give the position after what
\* they recognise from p, 0 when there is none.
RECURSIVE WfOperand(_, _)
RECURSIVE WfTail(_, _)
RECURSIVE WfExpression(_, _)

WfOperand(toks, p) ==
    IF p > Len(toks) THEN 0
    ELSE IF isUnaryOperator(toks[p]) THEN WfOperand(toks, p + 1)
    ELSE IF isdigit(toks[p][1]) THEN p + 1
    ELSE IF toks[p] = LPAREN THEN
        LET q == WfExpression(toks, p + 1)
        IN  IF q # 0 /\ q <= Len(toks) /\ toks[q] = RPAREN THEN q + 1 ELSE 0
    ELSE 0

WfTail(toks, q) ==
    IF q <= Len(toks) /\ toks[q] \in BinaryOperators
    THEN LET r == WfOperand(toks, q + 1) IN IF r = 0 THEN 0 ELSE WfTail(toks, r)
    ELSE q

WfExpression(toks, p) ==
    LET q == WfOperand(toks, p) IN IF q = 0 THEN 0 ELSE WfTail(toks, q)

WellFormed(toks) == WfExpression(toks, 1) = Len(toks) + 1

\* C2: on every token sequence that is not a well-formed infix expression
\* (such as those of "1 + 2 )", "3 !" and "1 ( 2 ) +") evaluate returns no
\* integer.
C2_MalformedNeverReturns ==
    (called /\ ~WellFormed(tokens)) => outcome.kind # "int"

\* ------------------------------------------------------------------- C3

\* C3: a call of evaluate on the string of the call before it has the
\* outcome of that call: the same integer, or the same error.
C3_Idempotent ==
    [][(called /\ expression' = expression) => outcome' = outcome]_vars

\* ------------------------------------------------------------------- C4

\* C4: after any sequence of calls the keys of operatorPrecedence and their
\* precedences are the 18 initial entries.
C4_TableNeverMutated == operatorPrecedence = InitialOperatorPrecedence

\* ------------------------------------------------------------------- C5

CountOf(seq, x) == Cardinality({ k \in 1..Len(seq) : seq[k] = x })

\* C5: a '-' that is not consumed in a two-character operator is the token
\* "neg" exactly when it is the first token, or the token before it is "("
\* or a key of the operator table (as the call finds it), and the token "-"
\* otherwise; every '-' is in one of the tokens "--", "neg", "-".
\* "-3 + 5" is 2, "3 - -5" is 8 and "(-3) * 2" is -6.
C5_UnaryMinus ==
    called =>
        /\ \A k \in 1..Len(tokens) :
               tokens[k] \in {NEG, <<"-">>} =>
                   (tokens[k] = NEG <=>
                        \/ k = 1
                        \/ tokens[k - 1] = LPAREN
                        \/ tokens[k - 1] \in DOMAIN before)
        /\ CountOf(expression, "-")
               = CountOf(tokens, NEG) + CountOf(tokens, <<"-">>)
                 + 2 * CountOf(tokens, <<"-", "-">>)
        /\ expression = <<"-", "3", " ", "+", " ", "5">> => outcome = Returned(2, FALSE)
        /\ expression = <<"3", " ", "-", " ", "-", "5">> => outcome = Returned(8, FALSE)
        /\ expression = <<"(", "-", "3", ")", " ", "*", " ", "2">>
               => outcome = Returned(-6, FALSE)

\* "(-3) * 2": the '-' after "(" is "neg"
C5_Witness ==
    /\ called
    /\ expression = <<"(", "-", "3", ")", " ", "*", " ", "2">>
    /\ tokens = <<LPAREN, NEG, <<"3">>, RPAREN, <<"*">>, <<"2">>>>
    /\ outcome = Returned(-6, FALSE)

\* ------------------------------------------------------------------- C6

IsNumber(t) == isdigit(t[1])

\* number, binary operator, number, binary operator, number
IsOperatorChain(toks) ==
    /\ Len(toks) = 5
    /\ IsNumber(toks[1]) /\ IsNumber(toks[3]) /\ IsNumber(toks[5])
    /\ toks[2] \in BinaryOperators /\ toks[4] \in BinaryOperators

\* the rule of the claim: an incoming op pops the stack top `top`
ClaimPops(op, top) ==
    \/ isRightAssociative(op)
         /\ InitialOperatorPrecedence[op] < InitialOperatorPrecedence[top]
    \/ ~isRightAssociative(op)
         /\ InitialOperatorPrecedence[op] <= InitialOperatorPrecedence[top]

\* the outcome of outer applied to an operand that is itself the outcome
\* inner of an application: inner's error if it is one
AfterInner(inner, outer) ==
    IF inner.kind = "int" THEN [outer EXCEPT !.ub = inner.ub \/ outer.ub] ELSE inner

\* (a op1 b) op2 c
GroupedLeft(a, op1, b, op2, c, bld) ==
    LET inner == calculateBinaryOperation(op1, a, b, bld)
    IN  AfterInner(inner, calculateBinaryOperation(op2, inner.val, c, bld))

\* a op1 (b op2 c)
GroupedRight(a, op1, b, op2, c, bld) ==
    LET inner == calculateBinaryOperation(op2, b, c, bld)
    IN  AfterInner(inner, calculateBinaryOperation(op1, a, inner.val, bld))

\* C6: in a op1 b op2 c the converter pops op1 before it pushes op2 exactly
\* when op2 is right-associative of lower precedence or left-associative of
\* lower or equal precedence; so a ^ b ^ c is a ^ (b ^ c) ("2 ^ 3 ^ 2" is 512,
\* not 64) and a chain of two left-associative operators of equal precedence
\* is (a op1 b) op2 c.
C6_Grouping ==
    called =>
        /\ IsOperatorChain(tokens) =>
               LET a   == stoi(tokens[1]).val
                   b   == stoi(tokens[3]).val
                   c   == stoi(tokens[5]).val
                   op1 == tokens[2]
                   op2 == tokens[4]
               IN  /\ postfix = IF ClaimPops(op2, op1)
                                THEN <<tokens[1], tokens[3], op1, tokens[5], op2>>
                                ELSE <<tokens[1], tokens[3], tokens[5], op2, op1>>
                   /\ (op1 = <<"^">> /\ op2 = <<"^">>)
                          => outcome = GroupedRight(a, op1, b, op2, c, build)
                   /\ (~isRightAssociative(op1) /\ ~isRightAssociative(op2)
                         /\ InitialOperatorPrecedence[op1] = InitialOperatorPrecedence[op2])
                          => outcome = GroupedLeft(a, op1, b, op2, c, build)
        /\ expression = <<"2", " ", "^", " ", "3", " ", "^", " ", "2">>
               => outcome = Returned(512, FALSE)

\* "2 ^ 3 ^ 2" is 512
C6_Witness ==
    /\ called
    /\ expression = <<"2", " ", "^", " ", "3", " ", "^", " ", "2">>
    /\ postfix = <<<<"2">>, <<"3">>, <<"2">>, <<"^">>, <<"^">>>>
    /\ outcome = Returned(512, FALSE)

\* ------------------------------------------------------------------- C7

RECURSIVE StackAfter(_, _, _)
\* the value stack once the first k tokens of a postfix sequence have been
\* applied, [ok, values], ok false when one of them threw or crashed
StackAfter(pf, k, bld) ==
    IF k = 0 THEN [ok |-> TRUE, values |-> <<>>]
    ELSE LET s == StackAfter(pf, k - 1, bld)
             t == pf[k]
             n == Len(s.values)
             fail == [ok |-> FALSE, values |-> <<>>]
         IN  IF ~s.ok THEN fail
             ELSE IF IsNumber(t) THEN
                 (IF stoi(t).ok THEN [ok |-> TRUE, values |-> Append(s.values, stoi(t).val)]
                  ELSE fail)
             ELSE IF isUnaryOperator(t) THEN
                 (IF n >= 1 /\ calculateUnaryOperation(t, s.values[n]).kind = "int"
                  THEN [ok |-> TRUE,
                        values |-> Append(SubSeq(s.values, 1, n - 1),
                                          calculateUnaryOperation(t, s.values[n]).val)]
                  ELSE fail)
             ELSE
                 (IF n >= 2 /\ calculateBinaryOperation(t, s.values[n - 1], s.values[n], bld).kind = "int"
                  THEN [ok |-> TRUE,
                        values |-> Append(SubSeq(s.values, 1, n - 2),
                            calculateBinaryOperation(t, s.values[n - 1], s.values[n], bld).val)]
                  ELSE fail)

\* postfix evaluation reaches a "/" with two operands, the right one 0
ReachesDivisionByZero(pf, bld) ==
    \E k \in 1..Len(pf) :
        /\ pf[k] = <<"/">>
        /\ LET s == StackAfter(pf, k - 1, bld)
           IN  s.ok /\ Len(s.values) >= 2 /\ s.values[Len(s.values)] = 0

IsDivisionByZero(o) == o.kind = "ExpressionError" /\ o.msg = MsgDivisionByZero

\* C7: when an expression passes validation and postfix evaluation reaches
\* a "/" whose right operand is 0, evaluate throws "Division by zero" and
\* returns nothing, also when the division is an operand of && or || that
\* the other operand decides ("0 && 4 / 0", "1 || 4 / 0"), and whenever the
\* reference evaluator of + - * / meets a zero divisor.
C7_DivisionByZero ==
    called =>
        /\ (Len(stages) = 4 /\ ReachesDivisionByZero(postfix, build))
               => IsDivisionByZero(outcome)
        /\ LET r == RefExpression(expression)
           IN  (r.ok /\ r.zero /\ ~r.big) => IsDivisionByZero(outcome)
        /\ expression = <<"0", " ", "&", "&", " ", "4", " ", "/", " ", "0">>
               => IsDivisionByZero(outcome)
        /\ expression = <<"1", " ", "|", "|", " ", "4", " ", "/", " ", "0">>
               => IsDivisionByZero(outcome)

\* "0 && 4 / 0" throws although 0 decides the conjunction
C7_Witness ==
    /\ called
    /\ expression = <<"0", " ", "&", "&", " ", "4", " ", "/", " ", "0">>
    /\ ReachesDivisionByZero(postfix, build)
    /\ IsDivisionByZero(outcome)

\* ------------------------------------------------------------------- C8

\* C8 as stated: "--3" is tokenized as neg, neg, 3 and evaluates to 3.
C8_DoubleMinusIsTwoNegations ==
    (called /\ expression = <<"-", "-", "3">>) =>
        /\ tokens = <<NEG, NEG, <<"3">>>>
        /\ outcome = Returned(3, FALSE)

\* C8: two adjacent '-' are consumed together as the operator "--" before
\* the unary-minus rule is consulted, so "--3" is the tokens "--", 3 and
\* evaluates to 2; with the two '-' separated, "- -3" is neg, neg, 3 and
\* evaluates to 3.
C8_DoubleMinus ==
    called =>
        /\ expression = <<"-", "-", "3">> =>
               /\ tokens = <<<<"-", "-">>, <<"3">>>>
               /\ outcome = Returned(2, FALSE)
        /\ expression = <<"-", " ", "-", "3">> =>
               /\ tokens = <<NEG, NEG, <<"3">>>>
               /\ outcome = Returned(3, FALSE)
        /\ \A k \in 1..Len(tokens) :
               (tokens[k] = NEG /\ k < Len(tokens) /\ tokens[k + 1] = NEG)
                   => CountOf(expression, " ") > 0

\* "--3" evaluates to 2
C8_Witness ==
    /\ called
    /\ expression = <<"-", "-", "3">>
    /\ tokens = <<<<"-", "-">>, <<"3">>>>
    /\ outcome = Returned(2, FALSE)

\* ------------------------------------------------------------------- C9

\* the binary operators of the validator: the keys of the table that the
\* call finds, the unary ones excepted
IsBinaryOperator(t) == t \in DOMAIN before /\ ~isUnaryOperator(t)

\* rule n of the validator is violated at the zero-based position i
RuleViolated(toks, i, n) ==
    LET t == toks[i + 1]
    IN  CASE n = 1 -> i = 0 /\ t = RPAREN
          [] n = 2 -> i = 0 /\ IsBinaryOperator(t)
          [] n = 3 -> i > 0 /\ IsBinaryOperator(t) /\ IsBinaryOperator(toks[i])
          [] n = 4 -> i > 0 /\ IsNumber(t) /\ IsNumber(toks[i])
          [] n = 5 -> i + 2 <= Len(toks) /\ isUnaryOperator(t)
                        /\ IsBinaryOperator(toks[i + 2])

Violations(toks) ==
    { v \in (0..(Len(toks) - 1)) \X (1..5) : RuleViolated(toks, v[1], v[2]) }

\* the lowest position, and at it the rule listed first
FirstViolation(V) ==
    CHOOSE v \in V : \A w \in V : v[1] < w[1] \/ (v[1] = w[1] /\ v[2] <= w[2])

\* the error the claim gives for rule n at position i
RuleError(i, n) ==
    CASE n = 1 -> ExpressionError(MsgStartParen, 0, <<>>, FALSE)
      [] n = 2 -> ExpressionError(MsgStartBinary, 0, <<>>, FALSE)
      [] n = 3 -> ExpressionError(MsgTwoBinary, i, <<>>, FALSE)
      [] n = 4 -> ExpressionError(MsgTwoOperands, i, <<>>, FALSE)
      [] n = 5 -> ExpressionError(MsgUnaryBinary, i + 1, <<>>, FALSE)

IsUnrecognised(t) ==
    /\ ~IsNumber(t)
    /\ t \notin {LPAREN, RPAREN}
    /\ t \notin DOMAIN InitialOperatorPrecedence

HasUnrecognised(toks) == \E k \in 1..Len(toks) : IsUnrecognised(toks[k])

\* the character at i is no digit, space, parenthesis or operator, and is in
\* no two-character operator with a neighbour
StandsAlone(e, i) ==
    /\ ~isdigit(e[i]) /\ ~isspace(e[i])
    /\ <<e[i]>> \notin {LPAREN, RPAREN}
    /\ <<e[i]>> \notin DOMAIN InitialOperatorPrecedence
    /\ i < Len(e) => <<e[i], e[i + 1]>> \notin DOMAIN InitialOperatorPrecedence
    /\ i > 1 => <<e[i - 1], e[i]>> \notin DOMAIN InitialOperatorPrecedence

\* the token reaches the tokens, and the postfix sequence when there is one
PassesThrough ==
    /\ \A i \in 1..Len(expression) :
           StandsAlone(expression, i) => CountOf(tokens, <<expression[i]>>) > 0
    /\ Len(stages) = 4 =>
           \A k \in 1..Len(tokens) :
               IsUnrecognised(tokens[k])
                   => CountOf(postfix, tokens[k]) = CountOf(tokens, tokens[k])

ValidationMessages ==
    {MsgStartParen, MsgStartBinary, MsgTwoBinary, MsgTwoOperands, MsgUnaryBinary}

MissingOrUnknownMessages ==
    {MsgMissingUnary, MsgMissingBinary, MsgUnknownBinary, MsgUnknownUnary}

====
